---- MODULE Spec2Model ----
(***************************************************************************)
(* Model of the analytics engine of mister-balance-analyzer:               *)
(* src/src/main.py, _analyze(transactions), lines 232-401.                 *)
(*                                                                         *)
(* The state is the input list `transactions`, the `analytics` dict that   *)
(* _analyze fills key by key, and the position `pc` of the call.           *)
(* Python dicts and lists are modelled as sequences (dicts as sequences of *)
(* entries in key-insertion order), list.sort/sorted as a stable sort, and *)
(* Python float quotients as exact fractions in lowest terms.              *)
(***************************************************************************)
EXTENDS Integers, Sequences, FiniteSets, TLC

VARIABLES transactions, analytics, pc

vars == <<transactions, analytics, pc>>

(***************************************************************************)
(* Values                                                                  *)
(***************************************************************************)

\* Python None for the string fields footballer / league_player_associated
None == "None"

\* Python None for date_full (an unparsable or missing date, lines 176-183)
NoDate == -1

\* `if t['footballer']` / `if t['league_player_associated']`: None and ''
\* are falsy, every other string is truthy
Truthy(s) == s \notin {None, ""}

\* `if t['date_full']`: a datetime object is always truthy, None is not
HasDate(t) == t.date_full # NoDate

\* date_full is counted in minutes (the parse format has minute resolution);
\* timedelta.days is the floor of the difference over one day
MinutesPerDay == 1440

abs(x) == IF x < 0 THEN -x ELSE x

RECURSIVE sum(_)
sum(s) == IF s = <<>> THEN 0 ELSE Head(s) + sum(Tail(s))

Amounts(s) == [i \in DOMAIN s |-> s[i].amount]

AbsAmounts(s) == [i \in DOMAIN s |-> abs(s[i].amount)]

RECURSIVE GCD(_, _)
GCD(a, b) == IF b = 0 THEN a ELSE GCD(b, a % b)

\* a Python float quotient n / d (d > 0), kept exact: lowest terms
Div(n, d) ==
    LET g == GCD(abs(n), d)
    IN  [num |-> n \div g, den |-> d \div g]

\* the int 0 that the guarded divisions yield, as a fraction
Zero == [num |-> 0, den |-> 1]

\* x * k for a fraction x and an int k > 0
Times(x, k) == Div(x.num * k, x.den)

Less(x, y) == x.num * y.den < y.num * x.den

(***************************************************************************)
(* list.sort(key=..., reverse=...) and sorted(...): stable in both         *)
(* directions, elements with equal keys keep their relative order.         *)
(* keys[i] is the key of s[i], as a fraction.                              *)
(***************************************************************************)
Key(n) == [num |-> n, den |-> 1]

\* key x sorts strictly before key y
Precedes(x, y, reverse) == IF reverse THEN Less(y, x) ELSE Less(x, y)

\* a sort that is not stable: elements with equal keys come out in reverse
RankTiesReversed(keys, i, reverse) ==
    1 + Cardinality({j \in DOMAIN keys :
                        \/ Precedes(keys[j], keys[i], reverse)
                        \/ ~Precedes(keys[i], keys[j], reverse) /\ j > i})

\* the place of element i in the sorted list: one more than the number of
\* elements that sort before it, or tie with it and precede it in the list
Rank(keys, i, reverse) ==
    1 + Cardinality({j \in DOMAIN keys :
                        \/ Precedes(keys[j], keys[i], reverse)
                        \/ ~Precedes(keys[i], keys[j], reverse) /\ j < i})

Sort(s, keys, reverse) ==
    [k \in DOMAIN s |-> s[CHOOSE i \in DOMAIN s : Rank(keys, i, reverse) = k]]

(***************************************************************************)
(* A dict (defaultdict) as a sequence of entries [k, v] in insertion order *)
(***************************************************************************)
Keys(d) == {d[i].k : i \in DOMAIN d}

\* d[key] of a defaultdict whose factory yields `default`
Get(d, key, default) ==
    IF key \in Keys(d)
    THEN d[CHOOSE i \in DOMAIN d : d[i].k = key].v
    ELSE default

\* d[key] = value: an existing key keeps its place, a new key goes last
Put(d, key, value) ==
    IF key \in Keys(d)
    THEN [d EXCEPT ![CHOOSE i \in DOMAIN d : d[i].k = key] = [k |-> key, v |-> value]]
    ELSE Append(d, [k |-> key, v |-> value])

(***************************************************************************)
(* 1. Player profitability analysis                                        *)
(***************************************************************************)
PurchaseTypes == {"purchase", "buyout_signing", "loan_purchase"}

SaleTypes == {"sale", "buyout_sale", "loan_sale"}

NewPlayerData == [purchases |-> <<>>, sales |-> <<>>, clause_increases |-> <<>>]

\* one iteration of the grouping loop
GroupTransaction(d, t) ==
    IF ~Truthy(t.footballer) THEN d
    ELSE LET data == Get(d, t.footballer, NewPlayerData)
         IN  IF t.type \in PurchaseTypes
             THEN Put(d, t.footballer, [data EXCEPT !.purchases = Append(@, t)])
             ELSE IF t.type \in SaleTypes
             THEN Put(d, t.footballer, [data EXCEPT !.sales = Append(@, t)])
             ELSE IF t.type = "clause_increase"
             THEN Put(d, t.footballer, [data EXCEPT !.clause_increases = Append(@, t)])
             ELSE d

\* the iterations of the grouping loop for ts[lo] .. ts[hi], in this order, d
\* being the dict before them; the range is halved, and the dict after the
\* first half is a value before the second half starts
RECURSIVE GroupRange(_, _, _, _)
GroupRange(d, ts, lo, hi) ==
    IF lo > hi THEN d
    ELSE IF lo = hi THEN GroupTransaction(d, ts[lo])
    ELSE LET mid == (lo + hi) \div 2
         IN  CHOOSE result \in {GroupRange(half, ts, mid + 1, hi) :
                                    half \in {GroupRange(d, ts, lo, mid)}} : TRUE

player_transactions(ts) == GroupRange(<<>>, ts, 1, Len(ts))

\* a slip of lines 249-250: the clause increases left out
total_spent_purchases_only(data) == sum(AbsAmounts(data.purchases))

total_spent(data) ==
    sum(AbsAmounts(data.purchases)) + sum(AbsAmounts(data.clause_increases))

total_earned(data) == sum(Amounts(data.sales))

net_profit(data) == total_earned(data) - total_spent(data)

\* a slip of line 254: the purchase test dropped
SoldOnly(data) == data.sales # <<>>

\* only players who have been sold AND were actually purchased
SoldAndPurchased(data) == data.sales # <<>> /\ data.purchases # <<>>

NetProfitKeys(s) == [i \in DOMAIN s |-> Key(s[i].net_profit)]

ProfitabilityEntry(player, data) ==
    [player               |-> player,
     total_spent          |-> total_spent(data),
     total_earned         |-> total_earned(data),
     net_profit           |-> net_profit(data),
     num_purchases        |-> Len(data.purchases),
     num_sales            |-> Len(data.sales),
     num_clause_increases |-> Len(data.clause_increases)]

player_profitability(ts) ==
    LET included == SelectSeq(player_transactions(ts), LAMBDA e : SoldAndPurchased(e.v))
        entries  == [i \in DOMAIN included |->
                        ProfitabilityEntry(included[i].k, included[i].v)]
    IN  Sort(entries, NetProfitKeys(entries), TRUE)

(***************************************************************************)
(* 2. Total profitability                                                  *)
(***************************************************************************)
\* a slip of line 272: only the gains summed
total_gains(profitability) ==
    sum([i \in DOMAIN profitability |->
            IF profitability[i].net_profit > 0 THEN profitability[i].net_profit ELSE 0])

total_profitability(profitability) ==
    sum([i \in DOMAIN profitability |-> profitability[i].net_profit])

(***************************************************************************)
(* 3. Ranking of buyouts                                                   *)
(***************************************************************************)
\* a slip of line 278: abs() dropped from the key
buyout_signings_by_amount(ts) ==
    LET selected == SelectSeq(ts, LAMBDA t : t.type = "buyout_signing")
    IN  Sort(selected, [i \in DOMAIN selected |-> Key(selected[i].amount)], TRUE)

buyout_signings(ts) ==
    LET selected == SelectSeq(ts, LAMBDA t : t.type = "buyout_signing")
    IN  Sort(selected, [i \in DOMAIN selected |-> Key(abs(selected[i].amount))], TRUE)

buyout_sales(ts) ==
    LET selected == SelectSeq(ts, LAMBDA t : t.type = "buyout_sale")
    IN  Sort(selected, [i \in DOMAIN selected |-> Key(selected[i].amount)], TRUE)

(***************************************************************************)
(* 4. Transaction type breakdown                                           *)
(***************************************************************************)
NewTypeSummary == [count |-> 0, total_amount |-> 0, avg_amount |-> Zero]

CountTransaction(d, t) ==
    LET e == Get(d, t.type, NewTypeSummary)
    IN  Put(d, t.type, [e EXCEPT !.count = @ + 1, !.total_amount = @ + t.amount])

\* the iterations of the counting loop for ts[lo] .. ts[hi], in this order, d
\* being the dict before them; the range is halved, and the dict after the
\* first half is a value before the second half starts
RECURSIVE CountRange(_, _, _, _)
CountRange(d, ts, lo, hi) ==
    IF lo > hi THEN d
    ELSE IF lo = hi THEN CountTransaction(d, ts[lo])
    ELSE LET mid == (lo + hi) \div 2
         IN  CHOOSE result \in {CountRange(half, ts, mid + 1, hi) :
                                    half \in {CountRange(d, ts, lo, mid)}} : TRUE

TypeCounts(ts) == CountRange(<<>>, ts, 1, Len(ts))

\* a slip of line 292: the total not divided by the count
avg_amount_undivided(e) == IF e.count > 0 THEN Div(e.total_amount, 1) ELSE Zero

avg_amount(e) == IF e.count > 0 THEN Div(e.total_amount, e.count) ELSE Zero

type_summary(ts) ==
    LET d == TypeCounts(ts)
    IN  [i \in DOMAIN d |-> [k |-> d[i].k, v |-> [d[i].v EXCEPT !.avg_amount = avg_amount(d[i].v)]]]

(***************************************************************************)
(* 5. Most active trading partners                                         *)
(***************************************************************************)
NewPartner == [purchases |-> 0, sales |-> 0, spent |-> 0, earned |-> 0, net_exchange |-> 0]

PartnerTransaction(d, t) ==
    IF ~Truthy(t.league_player_associated) THEN d
    ELSE LET partner == t.league_player_associated
             e       == Get(d, partner, NewPartner)
         IN  IF t.type \in {"buyout_signing", "loan_purchase"}
             THEN Put(d, partner, [e EXCEPT !.purchases = @ + 1,
                                            !.spent = @ + abs(t.amount)])
             ELSE IF t.type \in {"buyout_sale", "loan_sale"}
             THEN Put(d, partner, [e EXCEPT !.sales = @ + 1,
                                            !.earned = @ + t.amount])
             ELSE d

\* the iterations of the partner loop for ts[lo] .. ts[hi], in this order, d
\* being the dict before them; the range is halved, and the dict after the
\* first half is a value before the second half starts
RECURSIVE PartnerRange(_, _, _, _)
PartnerRange(d, ts, lo, hi) ==
    IF lo > hi THEN d
    ELSE IF lo = hi THEN PartnerTransaction(d, ts[lo])
    ELSE LET mid == (lo + hi) \div 2
         IN  CHOOSE result \in {PartnerRange(half, ts, mid + 1, hi) :
                                    half \in {PartnerRange(d, ts, lo, mid)}} : TRUE

trading_partners(ts) == PartnerRange(<<>>, ts, 1, Len(ts))

\* a slip of lines 309-311: the difference taken the other way round
net_exchange_reversed(e) == e.spent - e.earned

net_exchange(e) == e.earned - e.spent

top_partners(ts) ==
    LET d == trading_partners(ts)
        entries == [i \in DOMAIN d |->
                       [partner      |-> d[i].k,
                        purchases    |-> d[i].v.purchases,
                        sales        |-> d[i].v.sales,
                        spent        |-> d[i].v.spent,
                        earned       |-> d[i].v.earned,
                        net_exchange |-> net_exchange(d[i].v)]]
    IN  Sort(entries, [i \in DOMAIN entries |-> Key(entries[i].net_exchange)], TRUE)

(***************************************************************************)
(* 6. Most expensive mistakes   7. Best deals                              *)
(***************************************************************************)
\* a slip of line 319: break-even players taken for losses
IsLossOrEven(p) == p.net_profit <= 0

IsLoss(p) == p.net_profit < 0

IsProfit(p) == p.net_profit > 0

biggest_losses(profitability) ==
    LET selected == SelectSeq(profitability, IsLoss)
    IN  Sort(selected, NetProfitKeys(selected), FALSE)

best_deals(profitability) ==
    LET selected == SelectSeq(profitability, IsProfit)
    IN  Sort(selected, NetProfitKeys(selected), TRUE)

(***************************************************************************)
(* 8. Clause increase analysis                                             *)
(***************************************************************************)
clause_increase_summary(ts) ==
    LET clause_increases  == SelectSeq(ts, LAMBDA t : t.type = "clause_increase")
        total_clause_cost == sum(AbsAmounts(clause_increases))
    IN  [total_count |-> Len(clause_increases),
         total_cost  |-> total_clause_cost,
         avg_cost    |-> IF clause_increases # <<>>
                         THEN Div(total_clause_cost, Len(clause_increases))
                         ELSE Zero]

(***************************************************************************)
(* 9. Current squad value                                                  *)
(***************************************************************************)
\* a slip of line 344: the sales test dropped
InSquadIgnoringSales(data) == data.purchases # <<>> \/ data.clause_increases # <<>>

\* players who haven't been sold AND either were purchased OR have clause increases
InSquad(data) ==
    data.sales = <<>> /\ (data.purchases # <<>> \/ data.clause_increases # <<>>)

\* a slip of lines 345-346: the clause increases left out
total_invested_purchases_only(data) == sum(AbsAmounts(data.purchases))

total_invested(data) ==
    sum(AbsAmounts(data.purchases)) + sum(AbsAmounts(data.clause_increases))

current_squad(ts) ==
    LET included == SelectSeq(player_transactions(ts), LAMBDA e : InSquad(e.v))
        entries  == [i \in DOMAIN included |->
                        [player               |-> included[i].k,
                         total_invested       |-> total_invested(included[i].v),
                         num_purchases        |-> Len(included[i].v.purchases),
                         num_clause_increases |-> Len(included[i].v.clause_increases)]]
    IN  Sort(entries, [i \in DOMAIN entries |-> Key(entries[i].total_invested)], TRUE)

current_squad_total_investment(squad) ==
    sum([i \in DOMAIN squad |-> squad[i].total_invested])

(***************************************************************************)
(* 10. Average Hold Time & ROI                                             *)
(***************************************************************************)
HoldTimeCandidate(data) == data.sales # <<>> /\ data.purchases # <<>>

Dates(s) == {s[i].date_full : i \in {j \in DOMAIN s : HasDate(s[j])}}

Min(S) == CHOOSE x \in S : \A y \in S : x <= y

Max(S) == CHOOSE x \in S : \A y \in S : x >= y

\* min()/max() of an empty generator raise ValueError
RaisesValueError(ts) ==
    \E i \in DOMAIN player_transactions(ts) :
        LET data == player_transactions(ts)[i].v
        IN  /\ HoldTimeCandidate(data)
            /\ (Dates(data.purchases) = {} \/ Dates(data.sales) = {})

\* a slip of lines 366-367: the window opened at the last purchase
hold_days_from_last_purchase(data) ==
    (Max(Dates(data.sales)) - Max(Dates(data.purchases))) \div MinutesPerDay

hold_days(data) ==
    (Max(Dates(data.sales)) - Min(Dates(data.purchases))) \div MinutesPerDay

\* a slip of lines 372-373: the clause increases left out of the ROI's cost
roi_total_spent_purchases_only(data) == sum(AbsAmounts(data.purchases))

roi_total_spent(data) ==
    sum(AbsAmounts(data.purchases)) + sum(AbsAmounts(data.clause_increases))

roi_total_earned(data) == sum(Amounts(data.sales))

roi_net_profit(data) == roi_total_earned(data) - roi_total_spent(data)

\* a slip of line 376: the ratio taken of the proceeds, not of the profit
roi_percentage_of_earned(data) ==
    IF roi_total_spent(data) > 0
    THEN Times(Div(roi_total_earned(data), roi_total_spent(data)), 100)
    ELSE Zero

roi_percentage(data) ==
    IF roi_total_spent(data) > 0
    THEN Times(Div(roi_net_profit(data), roi_total_spent(data)), 100)
    ELSE Zero

\* the unsorted local list roi_data (hold_times is its hold_days column);
\* evaluated only when no ValueError is raised
roi_data(ts) ==
    LET included == SelectSeq(player_transactions(ts),
                              LAMBDA e : /\ HoldTimeCandidate(e.v)
                                         /\ Min(Dates(e.v.purchases)) # NoDate
                                         /\ Max(Dates(e.v.sales)) # NoDate)
    IN  [i \in DOMAIN included |->
            [player         |-> included[i].k,
             roi_percentage |-> roi_percentage(included[i].v),
             net_profit     |-> roi_net_profit(included[i].v),
             total_spent    |-> roi_total_spent(included[i].v),
             total_earned   |-> roi_total_earned(included[i].v),
             hold_days      |-> hold_days(included[i].v)]]

average_hold_time(roi) ==
    IF roi # <<>>
    THEN Div(sum([i \in DOMAIN roi |-> roi[i].hold_days]), Len(roi))
    ELSE Zero

\* the slices [:20] and [-20:]
TopN == 20

FirstN(s, n) == SubSeq(s, 1, IF Len(s) < n THEN Len(s) ELSE n)

LastN(s, n) == SubSeq(s, IF Len(s) < n THEN 1 ELSE Len(s) - n + 1, Len(s))

best_roi_players(sorted_roi) ==
    FirstN(SelectSeq(sorted_roi, LAMBDA p : Less(Zero, p.roi_percentage)), TopN)

\* a slip of line 390: the tail of the whole list, losing or not
worst_roi_players_unfiltered(sorted_roi) == LastN(sorted_roi, TopN)

worst_roi_players(sorted_roi) ==
    LastN(SelectSeq(sorted_roi, LAMBDA p : Less(p.roi_percentage, Zero)), TopN)

(***************************************************************************)
(* 11. Win Rate                                                            *)
(***************************************************************************)
\* a slip of line 394: break-even trades counted as profitable
profitable_or_even_trades(roi) == Len(SelectSeq(roi, LAMBDA p : p.net_profit >= 0))

profitable_trades(roi) == Len(SelectSeq(roi, LAMBDA p : p.net_profit > 0))

total_trades(roi) == Len(roi)

\* a slip of line 396: the guard dropped, so that without trades the division
\* by zero fails and no rate is produced (a fraction with denominator 0)
win_rate_unguarded(roi) ==
    IF total_trades(roi) = 0
    THEN [num |-> 0, den |-> 0]
    ELSE Times(Div(profitable_trades(roi), total_trades(roi)), 100)

win_rate(roi) ==
    IF total_trades(roi) > 0
    THEN Times(Div(profitable_trades(roi), total_trades(roi)), 100)
    ELSE Zero

losing_trades(roi) == total_trades(roi) - profitable_trades(roi)

(***************************************************************************)
(* _analyze(transactions), in two steps: the aggregations 1-9, which       *)
(* cannot fail, then hold time, ROI and win rate (10-11) and the return,   *)
(* which raise ValueError when a bought-and-sold player has no dated       *)
(* purchase or no dated sale.  analytics gets its keys as the code assigns *)
(* them.                                                                   *)
(***************************************************************************)
AnalyzeAggregations ==
    /\ pc = "start"
    /\ LET profitability == player_profitability(transactions)
           squad         == current_squad(transactions)
       IN  analytics' = analytics @@
              [player_profitability           |-> profitability,
               total_profitability            |-> total_profitability(profitability),
               top_buyout_signings            |-> buyout_signings(transactions),
               top_buyout_sales               |-> buyout_sales(transactions),
               type_summary                   |-> type_summary(transactions),
               top_trading_partners           |-> top_partners(transactions),
               biggest_losses                 |-> biggest_losses(profitability),
               best_deals                     |-> best_deals(profitability),
               clause_increase_summary        |-> clause_increase_summary(transactions),
               current_squad                  |-> squad,
               current_squad_total_investment |-> current_squad_total_investment(squad)]
    /\ pc' = "aggregated"
    /\ UNCHANGED transactions

AnalyzeHoldTimeAndWinRate ==
    /\ pc = "aggregated"
    /\ IF RaisesValueError(transactions)
       THEN /\ pc' = "raised"
            /\ UNCHANGED analytics
       ELSE /\ LET roi    == roi_data(transactions)
                   sorted == Sort(roi, [i \in DOMAIN roi |-> roi[i].roi_percentage], TRUE)
               IN  analytics' = analytics @@
                      [average_hold_time |-> average_hold_time(roi),
                       roi_data          |-> sorted,
                       best_roi_players  |-> best_roi_players(sorted),
                       worst_roi_players |-> worst_roi_players(sorted),
                       win_rate          |-> win_rate(roi),
                       total_trades      |-> total_trades(roi),
                       profitable_trades |-> profitable_trades(roi),
                       losing_trades     |-> losing_trades(roi)]
            /\ pc' = "done"
    /\ UNCHANGED transactions

Next == AnalyzeAggregations \/ AnalyzeHoldTimeAndWinRate

(***************************************************************************)
(* Inputs.  A transaction record as _parse_transactions builds it (lines   *)
(* 202-211); balance_after is not read by _analyze.                        *)
(***************************************************************************)
T(type, footballer, partner, date, amount) ==
    [type |-> type, footballer |-> footballer, league_player_associated |-> partner,
     date_full |-> date, amount |-> amount]

\* the eight kinds of __parse_transaction_type and one label it passes through
Types == PurchaseTypes \cup SaleTypes \cup {"clause_increase", "bonuses", "Other"}

Lists(S, n) == UNION {[1..k -> S] : k \in 0..n}

Start(inputs) ==
    /\ transactions \in inputs
    /\ analytics = <<>>
    /\ pc = "start"

\* every kind for player A, one kind of each role for player B, records that
\* name no player (None, ''), and undated records
MaxLen == 3

KindRecords ==
    {T(ty, "A", None, 0, 1) : ty \in Types}
        \cup {T(ty, "B", None, 0, 1) : ty \in {"purchase", "buyout_sale", "clause_increase"}}
        \cup {T("purchase", None, None, 0, 1), T("sale", "", None, 0, 1),
              T("purchase", "A", None, NoDate, 1), T("sale", "A", None, NoDate, 1)}

Init == Start(Lists(KindRecords, MaxLen))

Spec == Init /\ [][Next]_vars

\* amounts of both signs, zero amounts, clause increases and undated records,
\* for two players, in any order
MaxLenAmounts == 4

AmountRecords ==
    {T("purchase",        "A", None, 0,      -1000),
     T("clause_increase", "A", None, 0,      -500),
     T("sale",            "A", None, 2000,   1500),
     T("loan_sale",       "A", None, NoDate, -500),
     T("loan_purchase",   "B", None, 0,      0),
     T("buyout_signing",  "B", None, 0,      -1000),
     T("buyout_sale",     "B", None, 2000,   1000),
     T("sale",            "B", None, 2000,   500),
     T("purchase",        "B", None, NoDate, 250)}

InitAmounts == Start(Lists(AmountRecords, MaxLenAmounts))

SpecAmounts == InitAmounts /\ [][Next]_vars

\* three players, each with one ledger (nothing, bought, clause raised, bought
\* and clause raised, bought and sold at a loss, at par or at a gain), the
\* players in any order
MaxCost == 2

Buy(p, c) == T("purchase", p, None, 0, -1000 * c)

Sell(p, e) == T("sale", p, None, 2000, 1000 * e)

Clause(p) == T("clause_increase", p, None, 0, -500)

Ledgers(p) ==
    {<<>>, <<Clause(p)>>}
        \cup {<<Buy(p, c)>> : c \in 1..MaxCost}
        \cup {<<Buy(p, c), Clause(p)>> : c \in 1..MaxCost}
        \cup {<<Buy(p, c), Sell(p, c + d)>> : c \in 1..MaxCost, d \in {-1, 0, 1}}

\* the three ledgers one after the other, in the order numbered o
Arrange(o, a, b, c) ==
    CASE o = 1 -> a \o b \o c
      [] o = 2 -> a \o c \o b
      [] o = 3 -> b \o a \o c
      [] o = 4 -> b \o c \o a
      [] o = 5 -> c \o a \o b
      [] OTHER -> c \o b \o a

InitLedgers ==
    \E a \in Ledgers("A"), b \in Ledgers("B"), c \in Ledgers("C"), o \in 1..6 :
        /\ transactions = Arrange(o, a, b, c)
        /\ analytics = <<>>
        /\ pc = "start"

SpecLedgers == InitLedgers /\ [][Next]_vars

\* every kind, with amounts of both signs for sales, bonuses and the
\* unrecognized label
TypeRecords ==
    {T(ty, "A", None, 0, -3) : ty \in PurchaseTypes \cup {"clause_increase"}}
        \cup {T(ty, "A", None, 2000, 2) : ty \in SaleTypes}
        \cup {T("sale", "A", None, 2000, -3)}
        \cup {T("bonuses", None, None, 0, a) : a \in {2, 5}}
        \cup {T("Other", None, None, 0, a) : a \in {-3, 2}}

InitTypes == Start(Lists(TypeRecords, MaxLen))

SpecTypes == InitTypes /\ [][Next]_vars

\* buyouts and loans with the partners C and D, a sale at a negative amount, a
\* market purchase that names a partner, and buyouts that name none (None, '')
PartnerRecords ==
    {T("buyout_signing", "A", p, 0, -5000) : p \in {"C", "D", None}}
        \cup {T("buyout_sale", "A", p, 2000, 3000) : p \in {"C", "D", ""}}
        \cup {T("loan_purchase", "A", p, 0, -1000) : p \in {"C", "D"}}
        \cup {T("loan_sale", "A", p, 2000, -2000) : p \in {"C", "D"}}
        \cup {T("purchase", "A", p, 0, -1000) : p \in {"C", "D"}}

InitPartners == Start(Lists(PartnerRecords, MaxLen))

SpecPartners == InitPartners /\ [][Next]_vars

\* three players, each bought and sold at a loss, at par or at a gain, or
\* absent; the players in any order, their records one player after the other
\* or interleaved; and possibly, ahead of them, a record of an unrecognized
\* kind that names player A
TradeLedgers(p) ==
    {<<>>} \cup {<<Buy(p, c), Sell(p, c + d)>> : c \in 1..MaxCost, d \in {-1, 0, 1}}

Mention(p) == T("Other", p, None, 0, 0)

Mentions == {<<>>, <<Mention("A")>>}

FirstOf(x) == IF x = <<>> THEN <<>> ELSE <<Head(x)>>

RestOf(x) == IF x = <<>> THEN <<>> ELSE Tail(x)

\* the first records of three ledgers, then their remaining records
Interleave(x, y, z) ==
    FirstOf(x) \o FirstOf(y) \o FirstOf(z) \o RestOf(x) \o RestOf(y) \o RestOf(z)

InterleaveIn(o, a, b, c) ==
    CASE o = 1 -> Interleave(a, b, c)
      [] o = 2 -> Interleave(a, c, b)
      [] o = 3 -> Interleave(b, a, c)
      [] o = 4 -> Interleave(b, c, a)
      [] o = 5 -> Interleave(c, a, b)
      [] OTHER -> Interleave(c, b, a)

InitOrder ==
    \E m \in Mentions, a \in TradeLedgers("A"), b \in TradeLedgers("B"),
       c \in TradeLedgers("C"), o \in 1..6, mixed \in BOOLEAN :
        /\ transactions =
               m \o (IF mixed THEN InterleaveIn(o, a, b, c) ELSE Arrange(o, a, b, c))
        /\ analytics = <<>>
        /\ pc = "start"

SpecOrder == InitOrder /\ [][Next]_vars

\* buyout signings and sales of two players with equal and unequal amounts of
\* both signs, and a market purchase
BuyoutRecords ==
    {T("buyout_signing", "A", "C", 0,    -2000),
     T("buyout_signing", "B", "C", 0,    2000),
     T("buyout_signing", "A", "C", 0,    -1000),
     T("buyout_sale",    "A", "C", 2000, 1000),
     T("buyout_sale",    "B", "C", 2000, 1000),
     T("buyout_sale",    "A", "C", 2000, -2000),
     T("purchase",       "A", None, 0,   -3000)}

InitBuyouts == Start(Lists(BuyoutRecords, MaxLenAmounts))

SpecBuyouts == InitBuyouts /\ [][Next]_vars

\* closed trades of many players, so that the slices of lines 389 and 390 cut:
\* player n of a group buys for 100000 and sells for 1000 * (100 + gain * n)
MaxExcess == 2

GroupSizes == {0, 1} \cup (TopN..(TopN + MaxExcess))

Trade(group, n, gain) ==
    <<Buy(group \o ToString(n), 100), Sell(group \o ToString(n), 100 + gain * n)>>

RECURSIVE Trades(_, _, _)
Trades(group, n, gain) ==
    IF n = 0 THEN <<>> ELSE Trades(group, n - 1, gain) \o Trade(group, n, gain)

InitRoi ==
    \E losers \in GroupSizes, winners \in GroupSizes, even \in 0..1,
       winnersFirst \in BOOLEAN :
        /\ transactions =
               IF winnersFirst
               THEN Trades("W", winners, 1) \o Trades("E", even, 0) \o Trades("L", losers, -1)
               ELSE Trades("L", losers, -1) \o Trades("E", even, 0) \o Trades("W", winners, 1)
        /\ analytics = <<>>
        /\ pc = "start"

SpecRoi == InitRoi /\ [][Next]_vars

\* purchases and sales of A at several moments and without a date, a clause
\* increase older than all of them, and one trade of B that lasts a day
DateRecords ==
    {T("purchase",        "A", None, 1500,   -1000),
     T("purchase",        "A", None, 4000,   -1000),
     T("purchase",        "A", None, NoDate, -1000),
     T("clause_increase", "A", None, 0,      -500),
     T("sale",            "A", None, 1000,   1000),
     T("sale",            "A", None, 6000,   1000),
     T("sale",            "A", None, NoDate, 1000),
     T("purchase",        "B", None, 0,      -1000),
     T("sale",            "B", None, MinutesPerDay, 1000)}

InitDates == Start(Lists(DateRecords, MaxLenAmounts))

SpecDates == InitDates /\ [][Next]_vars

(***************************************************************************)
(* Properties.  The input side of each property is read off `transactions` *)
(* directly, not through the grouping of the engine.                       *)
(***************************************************************************)
AcquisitionKinds == {"purchase", "buyout_signing", "loan_purchase"}

DisposalKinds == {"sale", "buyout_sale", "loan_sale"}

ClauseKinds == {"clause_increase"}

\* the records of the input that name player p and have one of the kinds
RecordsOf(p, kinds) ==
    SelectSeq(transactions, LAMBDA t : t.footballer = p /\ t.type \in kinds)

Acquired(p) == RecordsOf(p, AcquisitionKinds) # <<>>

Disposed(p) == RecordsOf(p, DisposalKinds) # <<>>

ClauseIncreased(p) == RecordsOf(p, ClauseKinds) # <<>>

\* a record names a player when its footballer field is neither None nor ''
IsPlayer(p) == p # None /\ p # ""

Listed(list) == {list[i].player : i \in DOMAIN list}

Occurrences(list, p) == Cardinality({i \in DOMAIN list : list[i].player = p})

\* every footballer value of the input, every player of the two player lists
Candidates ==
    {transactions[i].footballer : i \in DOMAIN transactions}
        \cup Listed(analytics.player_profitability)
        \cup Listed(analytics.current_squad)

Aggregated == pc # "start"

Returned == pc = "done"

\* sums on the input side
Magnitude(x) == IF x >= 0 THEN x ELSE 0 - x

RECURSIVE Total(_)
Total(s) == IF Len(s) = 0 THEN 0 ELSE Total(SubSeq(s, 1, Len(s) - 1)) + s[Len(s)].amount

RECURSIVE TotalMagnitude(_)
TotalMagnitude(s) ==
    IF Len(s) = 0 THEN 0
    ELSE TotalMagnitude(SubSeq(s, 1, Len(s) - 1)) + Magnitude(s[Len(s)].amount)

SpentOn(p) ==
    TotalMagnitude(RecordsOf(p, AcquisitionKinds)) + TotalMagnitude(RecordsOf(p, ClauseKinds))

EarnedFrom(p) == Total(RecordsOf(p, DisposalKinds))

Entries(list) == {list[i] : i \in DOMAIN list}

\* a fraction x is the quotient n / d
IsQuotient(x, n, d) == x.den > 0 /\ x.num * d = n * x.den

\* C1: a player is in player_profitability exactly once if the input has an
\* acquisition record and a disposal record of that player, and not at all
\* otherwise (only acquisitions, only disposals, only clause increases, bonuses
\* or unrecognized kinds, or records that name no player).
C1_ProfitabilityPopulation ==
    Aggregated =>
        \A p \in Candidates :
            Occurrences(analytics.player_profitability, p) =
                IF IsPlayer(p) /\ Acquired(p) /\ Disposed(p) THEN 1 ELSE 0

\* player A, bought twice and sold once, is listed once
C1_Witness ==
    /\ Aggregated
    /\ Len(RecordsOf("A", AcquisitionKinds)) = 2
    /\ Disposed("A")
    /\ Occurrences(analytics.player_profitability, "A") = 1

\* C5 as stated: every player with an acquisition or a clause increase is in
\* exactly one of current_squad and player_profitability, by absence or
\* presence of a disposal.
C5_AsStated ==
    Aggregated =>
        \A p \in Candidates :
            (IsPlayer(p) /\ (Acquired(p) \/ ClauseIncreased(p))) =>
                /\ Occurrences(analytics.current_squad, p) =
                       (IF Disposed(p) THEN 0 ELSE 1)
                /\ Occurrences(analytics.player_profitability, p) =
                       (IF Disposed(p) THEN 1 ELSE 0)

\* C5 (amended): a player with an acquisition or a clause increase is in
\* current_squad exactly once, and not in player_profitability, when the player
\* has no disposal; in player_profitability exactly once, and not in
\* current_squad, when the player has a disposal and an acquisition; and in
\* neither list when the player has a disposal and clause increases but no
\* acquisition.  No player is in both lists.
C5_SquadOrProfitability ==
    Aggregated =>
        /\ Listed(analytics.current_squad) \cap Listed(analytics.player_profitability) = {}
        /\ \A p \in Candidates :
               (IsPlayer(p) /\ (Acquired(p) \/ ClauseIncreased(p))) =>
                   /\ Occurrences(analytics.current_squad, p) =
                          (IF Disposed(p) THEN 0 ELSE 1)
                   /\ Occurrences(analytics.player_profitability, p) =
                          (IF Disposed(p) /\ Acquired(p) THEN 1 ELSE 0)

\* A has a clause increase and a sale but no acquisition and is in neither list,
\* while B, bought and not sold, is in current_squad
C5_Witness ==
    /\ Aggregated
    /\ ClauseIncreased("A") /\ Disposed("A") /\ ~Acquired("A")
    /\ "A" \notin Listed(analytics.current_squad)
    /\ "A" \notin Listed(analytics.player_profitability)
    /\ Acquired("B") /\ ~Disposed("B")
    /\ Occurrences(analytics.current_squad, "B") = 1

\* C2: every entry of player_profitability, best_deals and biggest_losses has
\* total_spent = the sum of |amount| over the player's acquisition records plus
\* the sum of |amount| over the player's clause_increase records, total_earned = the
\* signed sum of the player's disposal amounts, and net_profit = total_earned -
\* total_spent.
C2_ProfitabilityAmounts ==
    Aggregated =>
        \A e \in Entries(analytics.player_profitability)
                    \cup Entries(analytics.best_deals)
                    \cup Entries(analytics.biggest_losses) :
            /\ e.total_spent = SpentOn(e.player)
            /\ e.total_earned = EarnedFrom(e.player)
            /\ e.net_profit = e.total_earned - e.total_spent

\* A bought for -1000, clause raised for -500, sold for 1500 and loaned out for
\* -500: spent 1500, earned 1000, a loss of 500
C2_Witness ==
    /\ Aggregated
    /\ \E e \in Entries(analytics.biggest_losses) :
           /\ e.player = "A"
           /\ e.num_clause_increases = 1
           /\ e.num_sales = 2
           /\ e.total_spent = 1500
           /\ e.total_earned = 1000
           /\ e.net_profit = -500

\* the players of the input with a dated acquisition and a dated disposal
RoiQualifying ==
    {p \in {transactions[i].footballer : i \in DOMAIN transactions} :
        /\ IsPlayer(p)
        /\ \E i \in DOMAIN transactions :
               /\ transactions[i].footballer = p
               /\ transactions[i].type \in AcquisitionKinds
               /\ transactions[i].date_full # NoDate
        /\ \E i \in DOMAIN transactions :
               /\ transactions[i].footballer = p
               /\ transactions[i].type \in DisposalKinds
               /\ transactions[i].date_full # NoDate}

\* C9: in a returned result total_trades is the number of ROI-qualifying
\* players, profitable_trades the number of them with net profit > 0,
\* losing_trades the rest (break-even players included), and win_rate is 0
\* without trades and profitable_trades / total_trades * 100 otherwise.
C9_WinRate ==
    Returned =>
        /\ analytics.total_trades = Cardinality(RoiQualifying)
        /\ analytics.profitable_trades =
               Cardinality({p \in RoiQualifying : EarnedFrom(p) - SpentOn(p) > 0})
        /\ analytics.losing_trades =
               Cardinality({p \in RoiQualifying : EarnedFrom(p) - SpentOn(p) <= 0})
        /\ analytics.losing_trades = analytics.total_trades - analytics.profitable_trades
        /\ IF analytics.total_trades = 0
           THEN analytics.win_rate = Zero
           ELSE IsQuotient(analytics.win_rate,
                           analytics.profitable_trades * 100, analytics.total_trades)

\* two trades, one profitable and one break-even: the break-even one is the
\* losing trade and the win rate is 50
C9_Witness ==
    /\ Returned
    /\ analytics.total_trades = 2
    /\ analytics.profitable_trades = 1
    /\ analytics.losing_trades = 1
    /\ \E e \in Entries(analytics.roi_data) : e.net_profit = 0
    /\ analytics.win_rate = [num |-> 50, den |-> 1]

\* C10: every entry of the ROI list (and of its best and worst slices) has
\* roi_percentage = net_profit / total_spent * 100 when total_spent > 0 and
\* roi_percentage = 0 when total_spent = 0, where the call returns all the same.
C10_RoiPercentage ==
    Returned =>
        \A e \in Entries(analytics.roi_data)
                    \cup Entries(analytics.best_roi_players)
                    \cup Entries(analytics.worst_roi_players) :
            /\ e.total_spent >= 0
            /\ IF e.total_spent > 0
               THEN IsQuotient(e.roi_percentage, e.net_profit * 100, e.total_spent)
               ELSE e.roi_percentage = Zero

\* A bought for -1000 and sold for 1500 has net profit 500 and ROI 50; B, got
\* for 0 and sold for 1000, has total_spent 0 and ROI 0
C10_Witness ==
    /\ Returned
    /\ \E e \in Entries(analytics.best_roi_players) :
           /\ e.player = "A"
           /\ e.total_spent = 1000
           /\ e.net_profit = 500
           /\ e.roi_percentage = [num |-> 50, den |-> 1]
    /\ \E e \in Entries(analytics.roi_data) :
           /\ e.player = "B"
           /\ e.total_spent = 0
           /\ e.net_profit = 1000
           /\ e.roi_percentage = Zero

RECURSIVE TotalNetProfit(_)
TotalNetProfit(list) ==
    IF Len(list) = 0 THEN 0
    ELSE TotalNetProfit(SubSeq(list, 1, Len(list) - 1)) + list[Len(list)].net_profit

\* C3: total_profitability is the sum of net_profit over the entries of
\* player_profitability, 0 when the list is empty.
C3_TotalProfitability ==
    Aggregated =>
        analytics.total_profitability = TotalNetProfit(analytics.player_profitability)

\* three players, two gains and a loss
C3_Witness ==
    /\ Aggregated
    /\ Len(analytics.player_profitability) = 3
    /\ analytics.player_profitability[1].net_profit = 1000
    /\ analytics.player_profitability[2].net_profit = 1000
    /\ analytics.player_profitability[3].net_profit = -1000
    /\ analytics.total_profitability = 1000

\* C4: best_deals holds exactly the entries of player_profitability with
\* net_profit > 0 and biggest_losses exactly those with net_profit < 0, each
\* once: no entry is in both, and an entry with net_profit = 0 is in neither.
C4_DealsAndLosses ==
    Aggregated =>
        LET all    == Entries(analytics.player_profitability)
            deals  == Entries(analytics.best_deals)
            losses == Entries(analytics.biggest_losses)
        IN  /\ deals = {e \in all : e.net_profit > 0}
            /\ losses = {e \in all : e.net_profit < 0}
            /\ Len(analytics.best_deals) = Cardinality(deals)
            /\ Len(analytics.biggest_losses) = Cardinality(losses)
            /\ deals \cap losses = {}
            /\ \A e \in all : e.net_profit = 0 => e \notin deals \cup losses
            /\ \A e \in all : e.net_profit # 0 => e \in deals \cup losses

\* a gain, a break-even and a loss: one best deal, one loss, the third in neither
C4_Witness ==
    /\ Aggregated
    /\ Len(analytics.player_profitability) = 3
    /\ Len(analytics.best_deals) = 1
    /\ Len(analytics.biggest_losses) = 1
    /\ \E e \in Entries(analytics.player_profitability) : e.net_profit = 0

RECURSIVE TotalInvested(_)
TotalInvested(list) ==
    IF Len(list) = 0 THEN 0
    ELSE TotalInvested(SubSeq(list, 1, Len(list) - 1)) + list[Len(list)].total_invested

\* C6: every player with an acquisition or a clause increase and no disposal
\* has one entry in current_squad, every entry has total_invested = the sum of
\* |amount| over the player's acquisition and clause_increase records, the list
\* is in descending order of total_invested, and
\* current_squad_total_investment is the sum of total_invested over the list.
C6_CurrentSquad ==
    Aggregated =>
        LET squad == analytics.current_squad
        IN  /\ \A p \in Candidates :
                   (IsPlayer(p) /\ (Acquired(p) \/ ClauseIncreased(p)) /\ ~Disposed(p)) =>
                       Occurrences(squad, p) = 1
            /\ \A i \in DOMAIN squad : squad[i].total_invested = SpentOn(squad[i].player)
            /\ \A i, j \in DOMAIN squad :
                   i < j => squad[i].total_invested >= squad[j].total_invested
            /\ analytics.current_squad_total_investment = TotalInvested(squad)

\* B, bought for -2000 and not sold, has total_invested 2000 and stands between
\* C (bought and clause raised, 2500) and A (clause raised only, 500), though A
\* comes first in the input
C6_Witness ==
    /\ Aggregated
    /\ transactions # <<>>
    /\ transactions[1].footballer = "A"
    /\ Len(analytics.current_squad) = 3
    /\ analytics.current_squad[1].player = "C"
    /\ analytics.current_squad[1].total_invested = 2500
    /\ analytics.current_squad[2].player = "B"
    /\ analytics.current_squad[2].total_invested = 2000
    /\ RecordsOf("B", Types) = <<T("purchase", "B", None, 0, -2000)>>
    /\ analytics.current_squad[3].player = "A"
    /\ analytics.current_squad[3].total_invested = 500
    /\ analytics.current_squad_total_investment = 5000

RecordsOfKind(k) == SelectSeq(transactions, LAMBDA t : t.type = k)

RECURSIVE TotalCount(_)
TotalCount(d) ==
    IF Len(d) = 0 THEN 0
    ELSE TotalCount(SubSeq(d, 1, Len(d) - 1)) + d[Len(d)].v.count

\* C7: type_summary has one key for each kind that occurs in the input and no
\* other key; for each key, count is the number of records of the kind (never
\* 0), total_amount their signed sum and avg_amount = total_amount / count; the
\* counts add up to the number of input records.
C7_TypeSummary ==
    Aggregated =>
        LET summary == analytics.type_summary
        IN  /\ \A i, j \in DOMAIN summary : summary[i].k = summary[j].k => i = j
            /\ {summary[i].k : i \in DOMAIN summary} =
                   {transactions[i].type : i \in DOMAIN transactions}
            /\ \A i \in DOMAIN summary :
                   /\ summary[i].v.count > 0
                   /\ summary[i].v.count = Len(RecordsOfKind(summary[i].k))
                   /\ summary[i].v.total_amount = Total(RecordsOfKind(summary[i].k))
                   /\ IsQuotient(summary[i].v.avg_amount,
                                 summary[i].v.total_amount, summary[i].v.count)
            /\ TotalCount(summary) = Len(transactions)

\* two bonuses of 2 and 5 and one record of an unrecognized kind: bonuses has
\* count 2, total 7 and average 7/2, and the unrecognized kind has its own key
C7_Witness ==
    /\ Aggregated
    /\ Len(transactions) = 3
    /\ \E i \in DOMAIN analytics.type_summary :
           /\ analytics.type_summary[i].k = "bonuses"
           /\ analytics.type_summary[i].v =
                  [count |-> 2, total_amount |-> 7, avg_amount |-> [num |-> 7, den |-> 2]]
    /\ \E i \in DOMAIN analytics.type_summary :
           /\ analytics.type_summary[i].k = "Other"
           /\ analytics.type_summary[i].v.count = 1

PurchaseFromPartner == {"buyout_signing", "loan_purchase"}

SaleToPartner == {"buyout_sale", "loan_sale"}

RecordsWith(partner, kinds) ==
    SelectSeq(transactions,
              LAMBDA t : t.league_player_associated = partner /\ t.type \in kinds)

\* C8: top_trading_partners has one entry for each counterparty of a
\* buyout_signing, loan_purchase, buyout_sale or loan_sale record and no other
\* entry; in it purchases and spent are the number and the sum of |amount| of
\* the counterparty's buyout_signing and loan_purchase records, sales and earned
\* the number and the signed sum of its buyout_sale and loan_sale records, and
\* net_exchange = earned - spent; the list is in descending order of
\* net_exchange.
C8_TradingPartners ==
    Aggregated =>
        LET partners == analytics.top_trading_partners
        IN  /\ \A i, j \in DOMAIN partners : partners[i].partner = partners[j].partner => i = j
            /\ {partners[i].partner : i \in DOMAIN partners} =
                   {transactions[i].league_player_associated :
                       i \in {j \in DOMAIN transactions :
                                 /\ IsPlayer(transactions[j].league_player_associated)
                                 /\ transactions[j].type \in
                                        PurchaseFromPartner \cup SaleToPartner}}
            /\ \A i \in DOMAIN partners :
                   LET e == partners[i]
                   IN  /\ e.purchases = Len(RecordsWith(e.partner, PurchaseFromPartner))
                       /\ e.spent = TotalMagnitude(RecordsWith(e.partner, PurchaseFromPartner))
                       /\ e.sales = Len(RecordsWith(e.partner, SaleToPartner))
                       /\ e.earned = Total(RecordsWith(e.partner, SaleToPartner))
                       /\ e.net_exchange = e.earned - e.spent
            /\ \A i, j \in DOMAIN partners :
                   i < j => partners[i].net_exchange >= partners[j].net_exchange

\* a -5000 buyout_signing and a +3000 buyout_sale with C, met first, and a
\* -1000 loan_purchase with D: D (-1000) is listed before C (-2000)
C8_Witness ==
    /\ Aggregated
    /\ transactions # <<>>
    /\ transactions[1].league_player_associated = "C"
    /\ Len(analytics.top_trading_partners) = 2
    /\ analytics.top_trading_partners[1].partner = "D"
    /\ analytics.top_trading_partners[1].net_exchange = -1000
    /\ analytics.top_trading_partners[2] =
           [partner |-> "C", purchases |-> 1, spent |-> 5000,
            sales |-> 1, earned |-> 3000, net_exchange |-> -2000]

\* C11: the analysis of the empty input runs to its return without raising,
\* and in the result every list and the type_summary mapping are empty and
\* every numeric rollup is 0.
C11_EmptyInput ==
    transactions = <<>> =>
        /\ pc # "raised"
        /\ pc # "done" => ENABLED Next
        /\ Returned =>
               /\ analytics.player_profitability = <<>>
               /\ analytics.best_deals = <<>>
               /\ analytics.biggest_losses = <<>>
               /\ analytics.top_buyout_signings = <<>>
               /\ analytics.top_buyout_sales = <<>>
               /\ analytics.top_trading_partners = <<>>
               /\ analytics.current_squad = <<>>
               /\ analytics.roi_data = <<>>
               /\ analytics.best_roi_players = <<>>
               /\ analytics.worst_roi_players = <<>>
               /\ analytics.type_summary = <<>>
               /\ analytics.total_profitability = 0
               /\ analytics.clause_increase_summary =
                      [total_count |-> 0, total_cost |-> 0, avg_cost |-> Zero]
               /\ analytics.current_squad_total_investment = 0
               /\ analytics.average_hold_time = Zero
               /\ analytics.win_rate = Zero
               /\ analytics.total_trades = 0
               /\ analytics.profitable_trades = 0
               /\ analytics.losing_trades = 0

\* the call on the empty input has returned
C11_Witness == transactions = <<>> /\ Returned

\* C12: on every input the analysis completes and returns a result, also when
\* all acquisition records or all disposal records of a bought-and-sold player
\* lack a timestamp.
C12_NeverRaises == pc # "raised"

Least(S) == CHOOSE x \in S : \A y \in S : x <= y

\* the place in the input of the first record of one of the kinds that names p
FirstRecord(p, kinds) ==
    Least({i \in DOMAIN transactions :
              transactions[i].footballer = p /\ transactions[i].type \in kinds})

\* the list is in descending (or ascending) order of net_profit, and players
\* with equal net_profit stand in the order of their first records of the kinds
InProfitOrder(list, descending, kinds) ==
    \A i, j \in DOMAIN list :
        i < j =>
            /\ IF descending
               THEN list[i].net_profit >= list[j].net_profit
               ELSE list[i].net_profit <= list[j].net_profit
            /\ list[i].net_profit = list[j].net_profit =>
                   FirstRecord(list[i].player, kinds) < FirstRecord(list[j].player, kinds)

AnyKind == {transactions[i].type : i \in DOMAIN transactions}

\* C14 as stated: player_profitability and best_deals are in descending and
\* biggest_losses in ascending order of net_profit, players with equal
\* net_profit in the order in which they are first met in the input, in a
\* record of any kind.
C14_AsStated ==
    Aggregated =>
        /\ InProfitOrder(analytics.player_profitability, TRUE, AnyKind)
        /\ InProfitOrder(analytics.best_deals, TRUE, AnyKind)
        /\ InProfitOrder(analytics.biggest_losses, FALSE, AnyKind)

\* C14 (amended): player_profitability and best_deals are in descending and
\* biggest_losses in ascending order of net_profit, players with equal
\* net_profit in the order of their first acquisition, disposal or
\* clause_increase record in the input.
C14_ProfitOrder ==
    Aggregated =>
        LET grouped == AcquisitionKinds \cup DisposalKinds \cup ClauseKinds
        IN  /\ InProfitOrder(analytics.player_profitability, TRUE, grouped)
            /\ InProfitOrder(analytics.best_deals, TRUE, grouped)
            /\ InProfitOrder(analytics.biggest_losses, FALSE, grouped)

\* A is named first, in a record of an unrecognized kind, but bought after B:
\* with equal profit B stands before A; both stand before C, whose loss is
\* listed though C's records come before theirs
C14_Witness ==
    /\ Aggregated
    /\ transactions # <<>>
    /\ transactions[1] = Mention("A")
    /\ Acquired("A") /\ Acquired("B") /\ Acquired("C")
    /\ FirstRecord("C", AcquisitionKinds) < FirstRecord("B", AcquisitionKinds)
    /\ FirstRecord("B", AcquisitionKinds) < FirstRecord("A", AcquisitionKinds)
    /\ Len(analytics.player_profitability) = 3
    /\ analytics.player_profitability[1].player = "B"
    /\ analytics.player_profitability[2].player = "A"
    /\ analytics.player_profitability[1].net_profit = analytics.player_profitability[2].net_profit
    /\ analytics.player_profitability[3].player = "C"
    /\ Len(analytics.best_deals) = 2
    /\ Len(analytics.biggest_losses) = 1

\* the records of the ranking with sort key k are the input's records of the
\* kind with that key, each as often and in the same order as in the input
SameRecords(ranking, kind, k, byMagnitude) ==
    SelectSeq(ranking,
              LAMBDA t : (IF byMagnitude THEN Magnitude(t.amount) ELSE t.amount) = k)
        = SelectSeq(transactions,
                    LAMBDA t : /\ t.type = kind
                               /\ (IF byMagnitude THEN Magnitude(t.amount) ELSE t.amount) = k)

AmountsOf(list) == {list[i].amount : i \in DOMAIN list}

\* C15: top_buyout_signings holds the buyout_signing records of the input, each
\* record by itself, in descending order of |amount|, and top_buyout_sales the
\* buyout_sale records in descending order of the signed amount; records with
\* equal keys stand in their input order.
C15_BuyoutRankings ==
    Aggregated =>
        LET signings == analytics.top_buyout_signings
            sales    == analytics.top_buyout_sales
        IN  /\ \A i, j \in DOMAIN signings :
                   i < j => Magnitude(signings[i].amount) >= Magnitude(signings[j].amount)
            /\ \A a \in AmountsOf(signings) \cup AmountsOf(transactions) :
                   SameRecords(signings, "buyout_signing", Magnitude(a), TRUE)
            /\ \A i, j \in DOMAIN sales : i < j => sales[i].amount >= sales[j].amount
            /\ \A a \in AmountsOf(sales) \cup AmountsOf(transactions) :
                   SameRecords(sales, "buyout_sale", a, FALSE)

\* A signed for -1000 and for -2000 and B for +2000, in this order: the two
\* records of A stay apart, and A's -2000 stands before B's +2000, ahead of
\* the -1000
C15_Witness ==
    /\ Aggregated
    /\ SelectSeq(transactions, LAMBDA t : t.type = "buyout_signing") =
           <<T("buyout_signing", "A", "C", 0, -1000),
             T("buyout_signing", "A", "C", 0, -2000),
             T("buyout_signing", "B", "C", 0, 2000)>>
    /\ analytics.top_buyout_signings =
           <<T("buyout_signing", "A", "C", 0, -2000),
             T("buyout_signing", "B", "C", 0, 2000),
             T("buyout_signing", "A", "C", 0, -1000)>>
    /\ Len(analytics.top_buyout_sales) = 1

Positive(list) == {i \in DOMAIN list : Less(Zero, list[i].roi_percentage)}

Negative(list) == {i \in DOMAIN list : Less(list[i].roi_percentage, Zero)}

AtMost20(n) == IF n < 20 THEN n ELSE 20

\* C16: roi_data is in descending order of roi_percentage; best_roi_players
\* is its first entries with a positive roi_percentage, 20 of them at most;
\* worst_roi_players is the tail of roi_data made of its last entries with a
\* negative roi_percentage, 20 at most, and never holds an entry that is zero
\* or positive.
C16_RoiRankings ==
    Returned =>
        LET roi   == analytics.roi_data
            best  == analytics.best_roi_players
            worst == analytics.worst_roi_players
        IN  /\ \A i, j \in DOMAIN roi :
                   i < j => ~Less(roi[i].roi_percentage, roi[j].roi_percentage)
            /\ Len(best) = AtMost20(Cardinality(Positive(roi)))
            /\ \A i \in DOMAIN best : best[i] = roi[i] /\ i \in Positive(roi)
            /\ Len(worst) = AtMost20(Cardinality(Negative(roi)))
            /\ \A i \in DOMAIN worst :
                   /\ worst[i] = roi[Len(roi) - Len(worst) + i]
                   /\ Less(worst[i].roi_percentage, Zero)

\* 21 winners, one break-even trade and one loser, the winners sold last: the
\* best list stops at 20 and the worst list holds the loser alone
C16_Witness ==
    /\ Returned
    /\ transactions # <<>>
    /\ transactions[1].footballer = "L1"
    /\ Cardinality(Positive(analytics.roi_data)) = 21
    /\ Cardinality(Negative(analytics.roi_data)) = 1
    /\ Len(analytics.roi_data) = 23
    /\ Len(analytics.best_roi_players) = 20
    /\ analytics.best_roi_players[1].player = "W21"
    /\ Len(analytics.worst_roi_players) = 1
    /\ analytics.worst_roi_players[1].player = "L1"

\* the timestamps of the records of the kinds that name p and have one
Timestamps(p, kinds) ==
    {transactions[i].date_full :
        i \in {j \in DOMAIN transactions :
                  /\ transactions[j].footballer = p
                  /\ transactions[j].type \in kinds
                  /\ transactions[j].date_full # NoDate}}

Greatest(S) == CHOOSE x \in S : \A y \in S : x >= y

\* from the earliest dated acquisition of p to its latest dated disposal
OwnershipWindow(p) ==
    Greatest(Timestamps(p, DisposalKinds)) - Least(Timestamps(p, AcquisitionKinds))

\* n whole days lie in a span of time: n days <= span < n + 1 days
WholeDays(n, span) == n * 1440 <= span /\ span < (n + 1) * 1440

RECURSIVE TotalHoldDays(_)
TotalHoldDays(list) ==
    IF Len(list) = 0 THEN 0
    ELSE TotalHoldDays(SubSeq(list, 1, Len(list) - 1)) + list[Len(list)].hold_days

\* C17: on return, every ROI-qualifying player has an entry in roi_data, and
\* the hold_days of an entry is the whole number of days from the earliest
\* timestamp of the player's acquisition records to the latest timestamp of
\* its disposal records (records without a timestamp and clause increases
\* play no part; the number is negative when the latest disposal comes
\* first); average_hold_time is the mean of hold_days over the entries, 0
\* when there are none.
C17_HoldTime ==
    Returned =>
        LET roi == analytics.roi_data
        IN  /\ Listed(roi) = RoiQualifying
            /\ \A e \in Entries(roi) : WholeDays(e.hold_days, OwnershipWindow(e.player))
            /\ IF roi = <<>>
               THEN analytics.average_hold_time = Zero
               ELSE IsQuotient(analytics.average_hold_time, TotalHoldDays(roi), Len(roi))

\* A bought at 4000 and then at 1500, had its clause raised at 0 and was sold
\* at 6000: 4500 minutes, 3 whole days
C17_Witness ==
    /\ Returned
    /\ transactions # <<>>
    /\ transactions[1] = T("purchase", "A", None, 4000, -1000)
    /\ ClauseIncreased("A")
    /\ Timestamps("A", AcquisitionKinds) = {1500, 4000}
    /\ \E e \in Entries(analytics.roi_data) : e.player = "A" /\ e.hold_days = 3
    /\ analytics.average_hold_time = [num |-> 3, den |-> 1]

\* a sale 500 minutes before the only dated purchase
C17_NegativeWitness ==
    /\ Returned
    /\ \E e \in Entries(analytics.roi_data) :
           /\ e.player = "A"
           /\ OwnershipWindow("A") = -500
           /\ e.hold_days = -1

\* C18: whenever a result is returned, roi_data and player_profitability
\* list the same players, once each, the two entries of a player agree on
\* net_profit, total_spent and total_earned, total_trades is the length of
\* player_profitability and profitable_trades the length of best_deals.
C18_RoiMatchesProfitability ==
    Returned =>
        LET roi           == analytics.roi_data
            profitability == analytics.player_profitability
        IN  /\ Listed(roi) = Listed(profitability)
            /\ Len(roi) = Len(profitability)
            /\ \A e \in Entries(roi), q \in Entries(profitability) :
                   e.player = q.player =>
                       /\ e.net_profit = q.net_profit
                       /\ e.total_spent = q.total_spent
                       /\ e.total_earned = q.total_earned
            /\ analytics.total_trades = Len(profitability)
            /\ analytics.profitable_trades = Len(analytics.best_deals)

\* A, bought and sold at a profit, and B, signed and sold at cost
C18_Witness ==
    /\ Returned
    /\ Listed(analytics.roi_data) = {"A", "B"}
    /\ Listed(analytics.player_profitability) = {"A", "B"}
    /\ analytics.total_trades = 2
    /\ analytics.profitable_trades = 1
    /\ Listed(analytics.best_deals) = {"A"}

\* a returned result in which a clause increase counts in both lists
C18_ClauseWitness ==
    /\ Returned
    /\ ClauseIncreased("A")
    /\ \E e \in Entries(analytics.roi_data) : e.player = "A" /\ e.total_spent = 1500
    /\ \E q \in Entries(analytics.player_profitability) :
           q.player = "A" /\ q.total_spent = 1500

====
